---- MODULE Spec2Model ----
(***************************************************************************)
(* A model of src/index.js, the ShipsIO AIS exchanger plugin: the          *)
(* scheduler (start/stop and its two timers), the synchronization cycle    *)
(* (fetchVessels: fetch, normalize, diff against vesselDict, post, commit, *)
(* hand the returned peers to handleNewVessel) and the key validity latch. *)
(*                                                                         *)
(* A vessel record is a function from a subset of Fields to values.  MMSI  *)
(* is an integer, every other field a string.  A property that holds the   *)
(* JavaScript value undefined is kept in the record with the value Undef,  *)
(* as the code keeps it (vessel.Name = vesselRaw.name); JSON.stringify     *)
(* drops such properties, which Serialize models.                         *)
(*                                                                         *)
(* Of the attributes the normalizer extracts, the model keeps mmsi, name   *)
(* and navigation.position; the others (speed, course, heading, callsign,  *)
(* design.*, sensors, registrations and the flattened overlay) are read    *)
(* the same way and take no part in the properties studied here.           *)
(***************************************************************************)
EXTENDS Integers, Sequences, FiniteSets, Bags, TLC

(***************************************************************************)
(* Bounds of the model.                                                    *)
(***************************************************************************)
MaxInFlight == 2
MaxSnapshotLen == 2
MaxPeers == 1
MaxStarts == 2
MaxRejections == 2

VARIABLES
    vesselDict,     \* plugin.vesselDict: MMSI -> the record stored for it
    isValidKey,     \* plugin.isValidKey
    options,        \* plugin.options: key and interval (0 before the first start)
    intervalId,     \* plugin.intervalId: a timer handle, 0 when undefined
    timers,         \* the host's timers, by handle: [kind, live, period, left],
                    \* period and left (the time until it is due) in seconds
    cyc,            \* the bag of fetchVessels invocations in flight: where each
                    \* is, the documents it skipped for want of an MMSI, the
                    \* vessels it observed, its post data
    delivered,      \* the app.handleMessage calls of the latest completed cycle
    running,        \* the host has called start and not yet stop
    starts,         \* number of start calls
    alarms,         \* number of showError calls
    rejections,     \* number of "Invalid key" responses received
    rejectionLogs,  \* number of logError calls for a rejected post
    configErrors,   \* number of logError('Missing setting: key') calls
    remote          \* MMSI -> field values the remote service last accepted

vars == <<vesselDict, isValidKey, options, intervalId, timers, cyc, delivered,
          running, starts, alarms, rejections, rejectionLogs, configErrors,
          remote>>

(***************************************************************************)
(* JavaScript values.                                                      *)
(***************************************************************************)
Undef == "undefined"
NaN == -1

\* r[f], undefined when r has no property f (f is not MMSI)
Get(r, f) == IF f \in DOMAIN r THEN r[f] ELSE Undef

\* if (r[f]) for a string-valued property
Truthy(r, f) == f \in DOMAIN r /\ r[f] # Undef /\ r[f] # ""

HasMMSIAnyNumber(r) == "MMSI" \in DOMAIN r

\* if (r.MMSI): a number that is neither 0 nor NaN
HasMMSI(r) == "MMSI" \in DOMAIN r /\ r["MMSI"] # 0 /\ r["MMSI"] # NaN

\* r with property f set to v
Put(r, f, v) == [g \in DOMAIN r \cup {f} |-> IF g = f THEN v ELSE r[g]]

\* delete r[f]
Delete(r, f) == [g \in DOMAIN r \ {f} |-> r[g]]

\* what JSON.stringify keeps of a record: the properties that are not undefined
Serialize(r) == [g \in {h \in DOMAIN r : h = "MMSI" \/ r[h] # Undef} |-> r[g]]

EmptyRecord == [g \in {} |-> Undef]

(***************************************************************************)
(* The local snapshot: the JSON object GET /signalk/v1/api/vessels returns, *)
(* as the sequence of its vessel documents in property order.  A document   *)
(* has the keys it has: mmsi (a string, here the sequence of its            *)
(* characters), name, position (navigation.position, with or without its    *)
(* value object) and netAIS (communication.netAIS.value, the marker the     *)
(* plugin itself writes on the vessels it receives from the network).       *)
(***************************************************************************)
Pos(lat) == [kind |-> "value", latitude |-> lat, longitude |-> "W122"]
NoValuePos == [kind |-> "novalue"]

OwnDoc(lat) == [mmsi |-> <<"1">>, name |-> "A", position |-> Pos(lat), netAIS |-> FALSE]

Docs ==
    { OwnDoc("N37"),
      OwnDoc("N38"),
      [mmsi |-> <<"2">>, position |-> Pos("N37"), netAIS |-> FALSE],
      [mmsi |-> <<"2", "x">>, name |-> "B", netAIS |-> FALSE],
      [mmsi |-> <<"3">>, name |-> "C", position |-> Pos("N37"), netAIS |-> TRUE],
      [name |-> "A", position |-> Pos("N37"), netAIS |-> FALSE],
      [mmsi |-> <<>>, name |-> "A", netAIS |-> FALSE],
      [mmsi |-> <<"x">>, name |-> "A", netAIS |-> FALSE],
      [mmsi |-> <<"0">>, name |-> "A", netAIS |-> FALSE],
      [mmsi |-> <<"1">>, name |-> "A", position |-> NoValuePos, netAIS |-> FALSE] }

SeqsUpTo(S, n) == UNION {[1..k -> S] : k \in 0..n}

Snapshots == SeqsUpTo(Docs, MaxSnapshotLen)

\* the snapshots of a quiet harbour: the own vessel alone, at one of two places
QuietSnapshots == {<<>>, <<OwnDoc("N37")>>, <<OwnDoc("N38")>>}

\* the snapshots of a vessel at her berth: nothing yet, or the own vessel
BerthSnapshots == {<<>>, <<OwnDoc("N37")>>}

(***************************************************************************)
(* Number.parseInt on a string: the value of its longest prefix of decimal  *)
(* digits, NaN when that prefix is empty.                                   *)
(***************************************************************************)
Digits == {"0", "1", "2", "3"}

DigitVal(ch) == CASE ch = "0" -> 0 [] ch = "1" -> 1 [] ch = "2" -> 2 [] ch = "3" -> 3

RECURSIVE ParseDigits(_, _, _)
ParseDigits(s, i, acc) ==
    IF i > Len(s) \/ s[i] \notin Digits
    THEN acc
    ELSE ParseDigits(s, i + 1, 10 * acc + DigitVal(s[i]))

ParseInt(s) ==
    IF Len(s) = 0 \/ s[1] \notin Digits THEN NaN ELSE ParseDigits(s, 1, 0)

(***************************************************************************)
(* The normalizer: the body of the for loop of fetchVessels up to the       *)
(* vessel record.  Reading position.value.latitude of a position that has   *)
(* no value object throws, and the try block around the whole document      *)
(* catches it.                                                             *)
(***************************************************************************)
Throws(d) == "position" \in DOMAIN d /\ d.position.kind = "novalue"

Normalize(d) ==
    LET v1 == IF "mmsi" \in DOMAIN d /\ d.mmsi # <<>>
              THEN Put(EmptyRecord, "MMSI", ParseInt(d.mmsi))
              ELSE EmptyRecord
        v2 == Put(v1, "Name", IF "name" \in DOMAIN d THEN d.name ELSE Undef)
        v3 == IF "position" \in DOMAIN d
              THEN Put(Put(v2, "Lat", d.position.latitude), "Lon", d.position.longitude)
              ELSE v2
    IN  v3

(***************************************************************************)
(* The diff against vesselDict: for every property of the stored record     *)
(* other than MMSI, delete the candidate's property when the two values     *)
(* are strictly equal.                                                     *)
(***************************************************************************)
RECURSIVE StripUnchangedMMSIToo(_, _, _)
StripUnchangedMMSIToo(vessel, previous, props) ==
    IF props = {}
    THEN vessel
    ELSE LET p == CHOOSE q \in props : TRUE
             w == IF p = "MMSI"
                  THEN Delete(vessel, p)
                  ELSE IF Get(vessel, p) = Get(previous, p)
                       THEN Delete(vessel, p)
                       ELSE vessel
         IN  StripUnchangedMMSIToo(w, previous, props \ {p})

RECURSIVE StripUnchanged(_, _, _)
StripUnchanged(vessel, previous, props) ==
    IF props = {}
    THEN vessel
    ELSE LET p == CHOOSE q \in props : TRUE
             w == IF p # "MMSI" /\ Get(vessel, p) = Get(previous, p)
                  THEN Delete(vessel, p)
                  ELSE vessel
         IN  StripUnchanged(w, previous, props \ {p})

Diff(vessel, dict) ==
    IF vessel["MMSI"] \in DOMAIN dict
    THEN StripUnchanged(vessel, dict[vessel["MMSI"]], DOMAIN dict[vessel["MMSI"]])
    ELSE vessel

(***************************************************************************)
(* The for loop of fetchVessels: the batch built from a snapshot, in        *)
(* document order.  A document that throws is logged and skipped; a vessel  *)
(* without a usable MMSI is skipped; a vessel whose IsNetAIS is set is      *)
(* skipped (nothing in the normalizer sets it).                             *)
(***************************************************************************)
RECURSIVE BuildVessels(_, _, _)
BuildVessels(snap, i, dict) ==
    IF i > Len(snap)
    THEN <<>>
    ELSE LET rest == BuildVessels(snap, i + 1, dict)
         IN  IF Throws(snap[i])
             THEN rest
             ELSE LET vessel == Normalize(snap[i])
                  IN  IF ~HasMMSI(vessel)
                      THEN rest
                      ELSE LET diffed == Diff(vessel, dict)
                           IN  IF ~Truthy(diffed, "IsNetAIS")
                               THEN <<[sent |-> diffed, seen |-> vessel]>> \o rest
                               ELSE rest

\* the number of documents normalized to a vessel that if (vessel.MMSI) skips
WithoutMMSI(snap) ==
    Cardinality({i \in DOMAIN snap : ~Throws(snap[i]) /\ ~HasMMSI(Normalize(snap[i]))})

\* the vessels array, and with it each vessel as it was before the diff
Batch(built) == [i \in DOMAIN built |-> built[i].sent]

Observed(built) == [i \in DOMAIN built |-> built[i].seen]

(***************************************************************************)
(* The remote service's answers.  An acknowledgement is a body starting    *)
(* with {"Posted": and may carry vessels, the peers near the anchor, in    *)
(* the flattened naming.  postToShipsIO turns every failure into null.      *)
(***************************************************************************)
NetPeer == [MMSI |-> 3, Name |-> "C", Lat |-> "N37", Lon |-> "W122", Modified |-> "t1"]

Peers ==
    { NetPeer,
      [MMSI |-> 1, Name |-> "A", Lat |-> "N37", Lon |-> "W122", Modified |-> "t1"],
      [MMSI |-> 3, Name |-> "C", Lat |-> "N37", Lon |-> "W122"],
      [Name |-> "D", Lat |-> "N37", Lon |-> "W122", Modified |-> "t1"] }

Acks ==
    {[ok |-> TRUE, hasVessels |-> FALSE, vessels |-> <<>>]}
    \cup {[ok |-> TRUE, hasVessels |-> TRUE, vessels |-> s] : s \in SeqsUpTo(Peers, MaxPeers)}

\* the answers of a quiet harbour: no peer, or the one peer
QuietAcks == {a \in Acks : \A i \in DOMAIN a.vessels : a.vessels[i] = NetPeer}

\* the acknowledgement that carries no vessels
PlainAck == [ok |-> TRUE, hasVessels |-> FALSE, vessels |-> <<>>]

Null == [ok |-> FALSE, hasVessels |-> FALSE, vessels |-> <<>>]

\* if (result)
ResultTruthyAlways(result) == TRUE

ResultTruthy(result) == result.ok

(***************************************************************************)
(* "Make sure all posted vessels are in vessel dictionary": in batch order, *)
(* a posted vessel is stored when its MMSI has no entry.                    *)
(***************************************************************************)
RECURSIVE CommitOverwriting(_, _, _)
CommitOverwriting(dict, vessels, i) ==
    IF i > Len(vessels)
    THEN dict
    ELSE CommitOverwriting(Put(dict, vessels[i]["MMSI"], vessels[i]), vessels, i + 1)

RECURSIVE Commit(_, _, _)
Commit(dict, vessels, i) ==
    IF i > Len(vessels)
    THEN dict
    ELSE LET postedVessel == vessels[i]
         IN  Commit(IF postedVessel["MMSI"] \notin DOMAIN dict
                    THEN Put(dict, postedVessel["MMSI"], postedVessel)
                    ELSE dict,
                    vessels, i + 1)

MissingVesselsBeforeCommit(result, dict) ==
    SelectSeq(result.vessels,
              LAMBDA v : ~("MMSI" \in DOMAIN v /\ v["MMSI"] \in DOMAIN vesselDict))

\* the returned vessels that have no entry in vesselDict (vesselDict[undefined]
\* is no entry either)
MissingVessels(result, dict) ==
    SelectSeq(result.vessels, LAMBDA v : ~("MMSI" \in DOMAIN v /\ v["MMSI"] \in DOMAIN dict))

(***************************************************************************)
(* prepareValues and handleNewVessel: the update handed to                 *)
(* app.handleMessage for one returned vessel, none when the vessel lacks    *)
(* MMSI or Modified.  A value is kept as the object the code builds, a      *)
(* scalar v as [is |-> v].                                                  *)
(***************************************************************************)
prepareValues(vessel) ==
    (IF HasMMSI(vessel)
     THEN <<[path |-> "", value |-> [mmsi |-> vessel["MMSI"]]]>> ELSE <<>>)
    \o (IF Truthy(vessel, "Name")
        THEN <<[path |-> "", value |-> [name |-> vessel["Name"]]]>> ELSE <<>>)
    \o <<[path |-> "communication.netAIS", value |-> [is |-> "true"]]>>
    \o (IF Truthy(vessel, "Lon") /\ Truthy(vessel, "Lat")
        THEN <<[path |-> "navigation.position",
                value |-> [longitude |-> vessel["Lon"], latitude |-> vessel["Lat"]]]>>
        ELSE <<>>)
    \o (IF Truthy(vessel, "Modified")
        THEN <<[path |-> "navigation.datetime", value |-> [is |-> vessel["Modified"]]]>>
        ELSE <<>>)

\* 'vessels.urn:mrn:imo:mmsi:' + vessel.MMSI
ContextOf(mmsi) == <<"vessels.urn:mrn:imo:mmsi:", mmsi>>

handleNewVesselUntested(vessel) ==
    IF HasMMSI(vessel)
    THEN <<[context |-> ContextOf(vessel["MMSI"]),
            values |-> prepareValues(vessel),
            timestamp |-> Get(vessel, "Modified")]>>
    ELSE <<>>

handleNewVessel(vessel) ==
    IF HasMMSI(vessel) /\ Truthy(vessel, "Modified")
    THEN <<[context |-> ContextOf(vessel["MMSI"]),
            values |-> prepareValues(vessel),
            timestamp |-> vessel["Modified"]]>>
    ELSE <<>>

RECURSIVE HandleAll(_, _)
HandleAll(missing, i) ==
    IF i > Len(missing) THEN <<>> ELSE handleNewVessel(missing[i]) \o HandleAll(missing, i + 1)

(***************************************************************************)
(* The state machine.  The invocations of fetchVessels in flight are        *)
(* anonymous continuations: a bag of records.  The post data keeps the      *)
(* anchor position and the vessels; the key and the integrate flag ride     *)
(* along from plugin.options unchanged.                                     *)
(***************************************************************************)
NoData == [Lat |-> Undef, Lon |-> Undef, Vessels |-> <<>>]

Fetching == [pc |-> "fetching", withoutMMSI |-> 0, observed |-> <<>>, data |-> NoData]

InFlight == BagToSet(cyc)

One(r) == SetToBag({r})

Keys == {Undef, "", "k"}

\* options.interval as configured: <<>> when absent, <<n>> for the number n
Intervals == {<<>>, <<0>>, <<119>>, <<120>>, <<150>>}

\* the floor of the polling period, and the deferral of the first cycle (30000 ms)
Floor == 120
Deferral == 30

\* if (!options.interval || (options.interval < 120)) options.interval = 120
ClampIntervalUnlessAbsent(interval) == IF interval = <<>> THEN Floor ELSE interval[1]

ClampInterval(interval) ==
    IF interval = <<>> \/ interval[1] = 0 \/ interval[1] < Floor
    THEN Floor
    ELSE interval[1]

Init ==
    /\ vesselDict = <<>>
    /\ isValidKey = TRUE
    /\ options = [key |-> Undef, interval |-> 0]
    /\ intervalId = 0
    /\ timers = <<>>
    /\ cyc = EmptyBag
    /\ delivered = <<>>
    /\ running = FALSE
    /\ starts = 0
    /\ alarms = 0
    /\ rejections = 0
    /\ rejectionLogs = 0
    /\ configErrors = 0
    /\ remote = <<>>

\* if (!options.key || (options.key.length < 1))
KeyMissingOnlyUndefined(key) == key = Undef

KeyMissing(key) == key = Undef \/ key = ""

(***************************************************************************)
(* plugin.start: with a key, setInterval and then setTimeout, both handles  *)
(* assigned to plugin.intervalId, so that it keeps the timeout's.           *)
(***************************************************************************)
Start(key, interval) ==
    /\ ~running
    /\ starts < MaxStarts
    /\ running' = TRUE
    /\ starts' = starts + 1
    /\ options' = [key |-> key, interval |-> ClampInterval(interval)]
    /\ IF KeyMissing(key)
       THEN /\ configErrors' = configErrors + 1
            /\ UNCHANGED <<timers, intervalId>>
       ELSE /\ timers' = timers \o <<[kind |-> "interval", live |-> TRUE,
                                      period |-> options'.interval,
                                      left |-> options'.interval],
                                     [kind |-> "timeout", live |-> TRUE,
                                      period |-> Deferral, left |-> Deferral]>>
            /\ intervalId' = Len(timers) + 2
            /\ UNCHANGED configErrors
    /\ UNCHANGED <<vesselDict, isValidKey, cyc, delivered, alarms, rejections,
                   rejectionLogs, remote>>

(***************************************************************************)
(* plugin.stop: clearInterval(plugin.intervalId) when it is set.  Node's    *)
(* clearInterval cancels whichever timer the handle names.                  *)
(***************************************************************************)
Stop ==
    /\ running
    /\ running' = FALSE
    /\ timers' = IF intervalId # 0
                 THEN [timers EXCEPT ![intervalId].live = FALSE, ![intervalId].left = 0]
                 ELSE timers
    /\ UNCHANGED <<vesselDict, isValidKey, options, intervalId, cyc, delivered,
                   starts, alarms, rejections, rejectionLogs, configErrors, remote>>

(***************************************************************************)
(* A timer callback: plugin.fetchVessels(url) starts downloadJSON and       *)
(* returns, leaving one more invocation in flight.                          *)
(***************************************************************************)
fetchVesselsExclusive ==
    /\ cyc = EmptyBag
    /\ cyc' = One(Fetching)

fetchVessels ==
    /\ BagCardinality(cyc) < MaxInFlight
    /\ cyc' = cyc (+) One(Fetching)

TimeoutFire(h) ==
    /\ timers[h].kind = "timeout"
    /\ timers[h].live
    /\ fetchVessels
    /\ timers' = [timers EXCEPT ![h].live = FALSE]
    /\ UNCHANGED <<vesselDict, isValidKey, options, intervalId, delivered, running,
                   starts, alarms, rejections, rejectionLogs, configErrors, remote>>

\* setInterval: after its callback the timer is due again one period later
RearmNever(t) == [t EXCEPT !.live = FALSE]

Rearm(t) == [t EXCEPT !.left = t.period]

IntervalFire(h) ==
    /\ timers[h].kind = "interval"
    /\ timers[h].live
    /\ fetchVessels
    /\ timers' = [timers EXCEPT ![h] = Rearm(timers[h])]
    /\ UNCHANGED <<vesselDict, isValidKey, options, intervalId, delivered,
                   running, starts, alarms, rejections, rejectionLogs, configErrors,
                   remote>>

(***************************************************************************)
(* Time.  A timer's callback runs when the timer is due, the timers in the  *)
(* order of their due times: time passes by no more than the time left on   *)
(* the live timer due next.                                                 *)
(***************************************************************************)
DueAlways(h) == TRUE

Due(h) == timers[h].left = 0

Live == {h \in DOMAIN timers : timers[h].live}

\* the lapses of time the host lets pass between its calls
Lapses == {30} \cup {timers[h].left : h \in Live}

Advance(d) ==
    /\ Live # {}
    /\ d > 0
    /\ \A h \in Live : d <= timers[h].left
    /\ timers' = [h \in DOMAIN timers |->
                     IF timers[h].live
                     THEN [timers[h] EXCEPT !.left = @ - d]
                     ELSE timers[h]]
    /\ UNCHANGED <<vesselDict, isValidKey, options, intervalId, cyc, delivered,
                   running, starts, alarms, rejections, rejectionLogs, configErrors,
                   remote>>

(***************************************************************************)
(* downloadJSON rejects: the catch of fetchVessels logs and the cycle ends. *)
(***************************************************************************)
FetchFail ==
    /\ BagIn(Fetching, cyc)
    /\ cyc' = cyc (-) One(Fetching)
    /\ delivered' = <<>>
    /\ UNCHANGED <<vesselDict, isValidKey, options, intervalId, timers, running,
                   starts, alarms, rejections, rejectionLogs, configErrors, remote>>

(***************************************************************************)
(* downloadJSON resolves with the snapshot: the batch is built and, when    *)
(* it is not empty, posted with the first vessel's position; an empty       *)
(* batch ends the cycle.                                                    *)
(***************************************************************************)
FetchOk(snap) ==
    /\ BagIn(Fetching, cyc)
    /\ LET built == BuildVessels(snap, 1, vesselDict)
           vessels == Batch(built)
       IN  IF Len(vessels) > 0
           THEN /\ cyc' = (cyc (-) One(Fetching))
                          (+) One([pc |-> "posting",
                                   withoutMMSI |-> WithoutMMSI(snap),
                                   observed |-> Observed(built),
                                   data |-> [Lat |-> Get(vessels[1], "Lat"),
                                             Lon |-> Get(vessels[1], "Lon"),
                                             Vessels |-> vessels]])
                /\ UNCHANGED delivered
           ELSE /\ cyc' = cyc (-) One(Fetching)
                /\ delivered' = <<>>
    /\ UNCHANGED <<vesselDict, isValidKey, options, intervalId, timers, running,
                   starts, alarms, rejections, rejectionLogs, configErrors, remote>>

(***************************************************************************)
(* What the remote service holds after accepting a batch: each posted       *)
(* record's transmitted properties laid over its copy of that vessel.       *)
(***************************************************************************)
RECURSIVE Accept(_, _, _)
Accept(copy, vessels, i) ==
    IF i > Len(vessels)
    THEN copy
    ELSE LET sent == Serialize(vessels[i])
             m == sent["MMSI"]
             old == IF m \in DOMAIN copy THEN copy[m] ELSE EmptyRecord
             new == [f \in DOMAIN old \cup DOMAIN sent |->
                        IF f \in DOMAIN sent THEN sent[f] ELSE old[f]]
         IN  Accept(Put(copy, m, new), vessels, i + 1)

(***************************************************************************)
(* The continuation of fetchVessels after await postToShipsIO(data): on a   *)
(* result, commit the posted vessels, then hand every returned vessel that  *)
(* has no entry to handleNewVessel.                                         *)
(***************************************************************************)
AfterPost(r, result) ==
    LET vessels == r.data.Vessels
        dict == IF ResultTruthy(result) THEN Commit(vesselDict, vessels, 1) ELSE vesselDict
        missing == IF ResultTruthy(result) /\ result.hasVessels
                   THEN MissingVessels(result, dict)
                   ELSE <<>>
    IN  /\ vesselDict' = dict
        /\ delivered' = HandleAll(missing, 1)
        /\ remote' = IF result.ok THEN Accept(remote, vessels, 1) ELSE remote
        /\ cyc' = cyc (-) One(r)

PostAck(r, result) ==
    /\ r.pc = "posting"
    /\ AfterPost(r, result)
    /\ UNCHANGED <<isValidKey, options, intervalId, timers, running, starts, alarms,
                   rejections, rejectionLogs, configErrors>>

(***************************************************************************)
(* postData on the body "Invalid key": the first time the latch drops and   *)
(* showError is called; the promise is rejected every time, and             *)
(* postToShipsIO logs the error and returns null.                           *)
(***************************************************************************)
ShowsAlarmAlways(valid) == TRUE

ShowsAlarm(valid) == valid

PostInvalidKey(r) ==
    /\ r.pc = "posting"
    /\ rejections < MaxRejections
    /\ rejections' = rejections + 1
    /\ IF ShowsAlarm(isValidKey)
       THEN /\ isValidKey' = FALSE
            /\ alarms' = alarms + 1
       ELSE UNCHANGED <<isValidKey, alarms>>
    /\ rejectionLogs' = rejectionLogs + 1
    /\ AfterPost(r, Null)
    /\ UNCHANGED <<options, intervalId, timers, running, starts, configErrors>>

(***************************************************************************)
(* Any other failure of the post (a transport error, a body that is         *)
(* neither an acknowledgement nor "Invalid key"): logged, null returned.    *)
(***************************************************************************)
PostFail(r) ==
    /\ r.pc = "posting"
    /\ AfterPost(r, Null)
    /\ UNCHANGED <<isValidKey, options, intervalId, timers, running, starts, alarms,
                   rejections, rejectionLogs, configErrors>>

(***************************************************************************)
(* Spec: the whole plugin, started and stopped by the host with any key,    *)
(* in a quiet harbour.                                                      *)
(***************************************************************************)
Next ==
    \/ \E key \in Keys : Start(key, <<>>)
    \/ Stop
    \/ \E h \in DOMAIN timers : TimeoutFire(h)
    \/ \E h \in DOMAIN timers : IntervalFire(h)
    \/ FetchFail
    \/ \E snap \in QuietSnapshots : FetchOk(snap)
    \/ \E r \in InFlight, result \in QuietAcks : PostAck(r, result)
    \/ \E r \in InFlight : PostInvalidKey(r)
    \/ \E r \in InFlight : PostFail(r)

Spec == Init /\ [][Next]_vars

(***************************************************************************)
(* SpecData: the plugin started once with a key the service accepts and     *)
(* left running, with every snapshot and every answer, each cycle ending    *)
(* before the next timer fires (the period is 120 s or more).               *)
(***************************************************************************)
NoneInFlight == cyc = EmptyBag

NextData ==
    \/ Start("k", <<>>)
    \/ \E h \in DOMAIN timers : NoneInFlight /\ TimeoutFire(h)
    \/ \E h \in DOMAIN timers : NoneInFlight /\ IntervalFire(h)
    \/ FetchFail
    \/ \E snap \in Snapshots : FetchOk(snap)
    \/ \E r \in InFlight, result \in Acks : PostAck(r, result)
    \/ \E r \in InFlight : PostFail(r)

SpecData == Init /\ [][NextData]_vars

(***************************************************************************)
(* SpecTime: the plugin started and stopped by the host with any key and    *)
(* any interval, at her berth, with time: a timer's callback runs when the *)
(* timer is due, and each cycle ends before the next callback.             *)
(* SpecLive adds that time passes, that a due timer's callback runs and     *)
(* that a request ends, by a response or by an error.                       *)
(***************************************************************************)
TimerFires ==
    \E h \in DOMAIN timers :
       NoneInFlight /\ Due(h) /\ (TimeoutFire(h) \/ IntervalFire(h))

TimePasses == \E d \in Lapses : Advance(d)

CycleEnds ==
    \/ FetchFail
    \/ \E snap \in BerthSnapshots : FetchOk(snap)
    \/ \E r \in InFlight : PostAck(r, PlainAck)
    \/ \E r \in InFlight : PostInvalidKey(r)
    \/ \E r \in InFlight : PostFail(r)

NextTime ==
    \/ \E key \in Keys, interval \in Intervals : Start(key, interval)
    \/ Stop
    \/ TimePasses
    \/ \E h \in DOMAIN timers : NoneInFlight /\ Due(h) /\ TimeoutFire(h)
    \/ \E h \in DOMAIN timers : NoneInFlight /\ Due(h) /\ IntervalFire(h)
    \/ FetchFail
    \/ \E snap \in BerthSnapshots : FetchOk(snap)
    \/ \E r \in InFlight : PostAck(r, PlainAck)
    \/ \E r \in InFlight : PostInvalidKey(r)
    \/ \E r \in InFlight : PostFail(r)

SpecTime == Init /\ [][NextTime]_vars

SpecLive ==
    /\ Init
    /\ [][NextTime]_vars
    /\ WF_vars(TimePasses)
    /\ WF_vars(TimerFires)
    /\ WF_vars(CycleEnds)

(***************************************************************************)
(* Properties.                                                             *)
(***************************************************************************)
\* the step builds the batch of r and posts it
Built(r) == r.pc = "posting" /\ CopiesIn(r, cyc') > CopiesIn(r, cyc)

Posting == {r \in InFlight : r.pc = "posting"}

ValidMMSI(m) == m \in Nat /\ m > 0

IdentifierOnly(r) == DOMAIN Serialize(r) = {"MMSI"}

\* the MMSIs the updates are addressed to
Contexts(updates) == {updates[i].context[2] : i \in DOMAIN updates}

\* C1: a batch holds no record for an MMSI that the cycle before it handed to
\* the output sink as a vessel of network origin.
NetOriginNeverReExported ==
    [][\A r \in BagToSet(cyc') :
          Built(r) =>
             \A i \in DOMAIN r.data.Vessels :
                r.data.Vessels[i]["MMSI"] \notin Contexts(delivered)]_vars

\* C2: between cycles, for every snapshot and every acknowledgement, when two
\* cycles in a row see that snapshot and get that acknowledgement, the second
\* posts identifier-only records and hands nothing to the output sink.
SecondCycleIsQuiet(snap, result) ==
    LET batch1 == Batch(BuildVessels(snap, 1, vesselDict))
        dict1 == Commit(vesselDict, batch1, 1)
        batch2 == Batch(BuildVessels(snap, 1, dict1))
        dict2 == Commit(dict1, batch2, 1)
    IN  Len(batch1) > 0 =>
           /\ \A i \in DOMAIN batch2 : IdentifierOnly(batch2[i])
           /\ HandleAll(MissingVessels(result, dict2), 1) = <<>>

CycleIdempotent ==
    (NoneInFlight /\ \E h \in DOMAIN timers : timers[h].kind = "interval" /\ timers[h].live)
       => \A snap \in Snapshots, result \in Acks :
             result.hasVessels => SecondCycleIsQuiet(snap, result)

\* C3: while the plugin is stopped no invocation of fetchVessels begins.
NoCycleAfterStop ==
    [][~running => BagCardinality(cyc') <= BagCardinality(cyc)]_vars

\* C4: every record of a batch is the reference diff of the vessel observed:
\* the vessel itself when vesselDict has no entry for its MMSI, otherwise the
\* vessel without the fields whose value equals the entry's, MMSI kept; a
\* vessel equal to its entry gives a record of MMSI alone.
ReferenceDiff(candidate, dict) ==
    IF candidate["MMSI"] \notin DOMAIN dict
    THEN candidate
    ELSE LET entry == dict[candidate["MMSI"]]
             kept == {f \in DOMAIN candidate :
                         f = "MMSI" \/ candidate[f] # Get(entry, f)}
         IN  [f \in kept |-> candidate[f]]

DiffIsReference ==
    [][\A r \in BagToSet(cyc') :
          Built(r) =>
             \A i \in DOMAIN r.data.Vessels :
                /\ r.data.Vessels[i] = ReferenceDiff(r.observed[i], vesselDict)
                /\ (/\ r.observed[i]["MMSI"] \in DOMAIN vesselDict
                    /\ r.observed[i] = vesselDict[r.observed[i]["MMSI"]])
                      => DOMAIN r.data.Vessels[i] = {"MMSI"}]_vars

DiffWitness ==
    \E r \in Posting :
       /\ \E i \in DOMAIN r.data.Vessels :
             /\ r.observed[i]["MMSI"] \in DOMAIN vesselDict
             /\ DOMAIN r.data.Vessels[i] # DOMAIN r.observed[i]
             /\ DOMAIN r.data.Vessels[i] # {"MMSI"}
       /\ \E i \in DOMAIN r.data.Vessels :
             /\ r.observed[i]["MMSI"] \in DOMAIN vesselDict
             /\ r.observed[i] = vesselDict[r.observed[i]["MMSI"]]
             /\ DOMAIN r.data.Vessels[i] = {"MMSI"}

\* C5: vesselDict changes, and updates are handed to the output sink, only in
\* the step that continues a cycle after an acknowledged post; the step that
\* ends a cycle on a failed fetch, a failed post or a rejected key leaves
\* vesselDict unchanged and hands nothing to the output sink.
StoreWrittenOnlyOnAck ==
    [][/\ (vesselDict' # vesselDict \/ (delivered' # delivered /\ delivered' # <<>>))
             => \E r \in InFlight, result \in Acks : PostAck(r, result)
       /\ (FetchFail \/ \E r \in InFlight : PostFail(r) \/ PostInvalidKey(r))
             => vesselDict' = vesselDict /\ delivered' = <<>>]_vars

FailedPostWitness ==
    /\ rejections > 0
    /\ NoneInFlight
    /\ vesselDict = <<>>
    /\ remote = <<>>

\* C6: no record of a batch carries, besides MMSI, a property whose value is
\* the value the service accepted for that vessel in its latest acknowledged
\* batch carrying that property.
OnlyChangedFieldsSent ==
    [][\A r \in BagToSet(cyc') :
          Built(r) =>
             \A i \in DOMAIN r.data.Vessels :
                LET sent == Serialize(r.data.Vessels[i])
                    m == sent["MMSI"]
                IN  \A f \in DOMAIN sent \ {"MMSI"} :
                       ~(m \in DOMAIN remote /\ f \in DOMAIN remote[m]
                            /\ remote[m][f] = sent[f])]_vars

\* C7: isValidKey is true exactly until the first "Invalid key" response and
\* no step sets it back, stop and start included; showError is called once,
\* on the first rejection, and every rejection is logged.
KeyGateCounts ==
    /\ isValidKey <=> rejections = 0
    /\ alarms = IF rejections = 0 THEN 0 ELSE 1
    /\ rejectionLogs = rejections

KeyGateIsOneShot == [](KeyGateCounts) /\ [][isValidKey' => isValidKey]_vars

TwoRejectionsWitness ==
    /\ rejections = 2
    /\ alarms = 1
    /\ rejectionLogs = 2
    /\ starts = 2
    /\ ~isValidKey

\* C8: no step removes an entry of vesselDict or changes the record stored
\* for an MMSI, with cycles interleaved.
StoreMonotone ==
    [][\A m \in DOMAIN vesselDict :
          m \in DOMAIN vesselDict' /\ vesselDict'[m] = vesselDict[m]]_vars

StaleEntryWitness ==
    \E m \in DOMAIN vesselDict :
       /\ m \in DOMAIN remote
       /\ remote[m] # Serialize(vesselDict[m])

\* C9: a start whose key is undefined or empty schedules no timer and logs
\* one configuration error; while no timer was ever scheduled no cycle runs.
MissingKeySchedulesNothing ==
    /\ [](timers = <<>> =>
             cyc = EmptyBag /\ vesselDict = <<>> /\ remote = <<>> /\ delivered = <<>>)
    /\ [][(starts' = starts + 1 /\ options'.key \in {Undef, ""})
             => timers' = timers /\ configErrors' = configErrors + 1]_vars

EmptyKeyWitness ==
    /\ running
    /\ options.key = ""
    /\ timers = <<>>
    /\ configErrors = 1

\* C10: every record posted, observed or stored has a positive MMSI, an entry
\* of vesselDict is keyed by the MMSI it contains, every update goes to a
\* context with an MMSI, a document whose mmsi is absent, empty or not a
\* number yields no record, and a returned vessel without MMSI no update.
Unusable(d) == "mmsi" \notin DOMAIN d \/ d.mmsi = <<>> \/ d.mmsi[1] \notin Digits

NoRecordWithoutMMSI ==
    /\ \A r \in Posting :
          \A i \in DOMAIN r.data.Vessels :
             /\ "MMSI" \in DOMAIN r.data.Vessels[i]
             /\ ValidMMSI(r.data.Vessels[i]["MMSI"])
             /\ ValidMMSI(r.observed[i]["MMSI"])
    /\ \A m \in DOMAIN vesselDict :
          ValidMMSI(m) /\ "MMSI" \in DOMAIN vesselDict[m] /\ vesselDict[m]["MMSI"] = m
    /\ \A c \in Contexts(delivered) : ValidMMSI(c)
    /\ \A d \in Docs :
          (Unusable(d) /\ ~Throws(d)) => BuildVessels(<<d>>, 1, vesselDict) = <<>>
    /\ \A v \in Peers : "MMSI" \notin DOMAIN v => handleNewVessel(v) = <<>>

DroppedDocumentWitness ==
    \E r \in Posting : r.withoutMMSI > 0 /\ Len(r.data.Vessels) > 0

\* the step begins an invocation of fetchVessels
Begins == BagCardinality(cyc') > BagCardinality(cyc)

\* C11: start begins no cycle; a cycle begins only in the callback of a timer
\* that is due; while the deferred first cycle of a start is pending, the
\* interval timer of that start has not fired and is due later; and until the
\* deferral of the first start has fired nothing has run.
FirstCycleIsDeferred ==
    /\ [][starts' = starts + 1 => ~Begins]_vars
    /\ [][Begins => \E h \in DOMAIN timers : timers[h].live /\ timers[h].left = 0]_vars
    /\ [](\A h \in DOMAIN timers :
             (timers[h].kind = "timeout" /\ timers[h].live)
                => /\ timers[h - 1].kind = "interval"
                   /\ timers[h - 1].left
                         = timers[h].left + timers[h - 1].period - 30)
    /\ []((starts = 1 /\ timers # <<>> /\ timers[2].live)
             => cyc = EmptyBag /\ vesselDict = <<>> /\ remote = <<>>)

DeferredFirstCycleWitness ==
    /\ starts = 1
    /\ running
    /\ timers # <<>>
    /\ ~timers[2].live
    /\ timers[1].left = timers[1].period - 30
    /\ BagIn(Fetching, cyc)

Scheduled == \E h \in DOMAIN timers : timers[h].kind = "interval" /\ timers[h].live

HasValue(u, path, value) ==
    \E j \in DOMAIN u.values : u.values[j].path = path /\ u.values[j].value = value

WellFormedUpdate(u) ==
    /\ u.context[1] = "vessels.urn:mrn:imo:mmsi:"
    /\ ValidMMSI(u.context[2])
    /\ u.timestamp \notin {Undef, ""}
    /\ HasValue(u, "communication.netAIS", [is |-> "true"])
    /\ HasValue(u, "navigation.datetime", [is |-> u.timestamp])
    /\ \E j \in DOMAIN u.values :
          u.values[j].path = "" /\ u.values[j].value = [mmsi |-> u.context[2]]

UpdatesAreWellFormed ==
    /\ \A i \in DOMAIN delivered : WellFormedUpdate(delivered[i])
    /\ \A v \in Peers :
          LET complete == /\ "MMSI" \in DOMAIN v
                          /\ ValidMMSI(v["MMSI"])
                          /\ "Modified" \in DOMAIN v
                          /\ v["Modified"] \notin {Undef, ""}
              updates == handleNewVessel(v)
          IN  IF complete
              THEN /\ Len(updates) = 1
                   /\ updates[1].context = <<"vessels.urn:mrn:imo:mmsi:", v["MMSI"]>>
                   /\ updates[1].timestamp = v["Modified"]
                   /\ WellFormedUpdate(updates[1])
              ELSE updates = <<>>

DeliveredUpdateWitness ==
    /\ delivered # <<>>
    /\ HasValue(delivered[1], "navigation.position",
                [longitude |-> "W122", latitude |-> "N37"])

\* C15: the batch posted for a snapshot holds one record for every document
\* of the snapshot whose mmsi parses to a positive number, whatever else in
\* the document is malformed.
WithMMSI(snap) ==
    {i \in DOMAIN snap : ~Unusable(snap[i]) /\ ValidMMSI(ParseInt(snap[i].mmsi))}

MalformedAttributeIsIsolated ==
    [][\A snap \in Snapshots :
          FetchOk(snap) =>
             \A r \in BagToSet(cyc') :
                Built(r) => Len(r.data.Vessels) = Cardinality(WithMMSI(snap))]_vars

\* C16: the Lat and Lon of the data posted are the position of the first
\* vessel of the batch as observed in this cycle.
AnchorIsFirstVesselPosition ==
    [][\A r \in BagToSet(cyc') :
          Built(r) =>
             /\ r.data.Lat = Get(r.observed[1], "Lat")
             /\ r.data.Lon = Get(r.observed[1], "Lon")]_vars

\* C17: a timer's callback begins a cycle whatever cycles are in flight, up
\* to the bound on them; and an acknowledged cycle stores, for each MMSI of
\* its batch that has no entry, the first record of that MMSI in the batch,
\* and leaves the entries that exist as they are.
FirstOf(vessels, m) ==
    vessels[CHOOSE i \in DOMAIN vessels :
               /\ vessels[i]["MMSI"] = m
               /\ \A j \in 1..(i - 1) : vessels[j]["MMSI"] # m]

CyclesOverlap ==
    /\ [](\A h \in DOMAIN timers :
             (timers[h].live /\ BagCardinality(cyc) < MaxInFlight)
                => ENABLED (TimeoutFire(h) \/ IntervalFire(h)))
    /\ [][\A r \in InFlight, result \in QuietAcks :
             PostAck(r, result) =>
                \A i \in DOMAIN r.data.Vessels :
                   LET m == r.data.Vessels[i]["MMSI"]
                   IN  /\ m \in DOMAIN vesselDict'
                       /\ vesselDict'[m] = IF m \in DOMAIN vesselDict
                                           THEN vesselDict[m]
                                           ELSE FirstOf(r.data.Vessels, m)]_vars

TwoFirstSightingsWitness ==
    /\ 1 \notin DOMAIN vesselDict
    /\ BagCardinality(cyc) = 2
    /\ \A r \in InFlight :
          /\ r.pc = "posting"
          /\ r.data.Vessels[1] = r.observed[1]
          /\ r.data.Vessels[1]["MMSI"] = 1
    /\ \E r, q \in InFlight : r.data.Vessels[1]["Lat"] # q.data.Vessels[1]["Lat"]

\* C18: every record stored in vesselDict is a vessel in full, as the
\* normalizer gives it for a document, with cycles interleaved.
FullRecords == {Normalize(d) : d \in {e \in Docs : ~Throws(e)}}

EntriesAreFullRecords ==
    \A m \in DOMAIN vesselDict : vesselDict[m] \in FullRecords

LateFirstSightingWitness ==
    \E r \in Posting :
       /\ 1 \in DOMAIN vesselDict
       /\ r.data.Vessels[1]["MMSI"] = 1
       /\ r.data.Vessels[1] = r.observed[1]
       /\ r.observed[1] # vesselDict[1]

\* C19: after an acknowledged cycle, for every vessel that is once in its
\* batch, the service holds for each property of the vessel the value
\* observed in this cycle.
OnceIn(vessels, i) ==
    \A j \in DOMAIN vessels : vessels[j]["MMSI"] = vessels[i]["MMSI"] => j = i

DeltaIsComplete ==
    [][\A r \in InFlight, result \in Acks :
          PostAck(r, result) =>
             \A i \in DOMAIN r.observed :
                OnceIn(r.observed, i) =>
                   LET seen == Serialize(r.observed[i])
                       m == seen["MMSI"]
                   IN  \A f \in DOMAIN seen :
                          /\ m \in DOMAIN remote'
                          /\ f \in DOMAIN remote'[m]
                          /\ remote'[m][f] = seen[f]]_vars

\* C20: no update handed to the output sink is addressed to an MMSI that has
\* an entry in vesselDict, the vessels of the batch just committed included,
\* nor to an MMSI the service ever accepted from this plugin.
PostedNeverEmittedBack ==
    \A c \in Contexts(delivered) :
       c \notin DOMAIN vesselDict /\ c \notin DOMAIN remote

ForwardedPeerWitness ==
    /\ NoneInFlight
    /\ Contexts(delivered) = {3}
    /\ DOMAIN vesselDict = {1}
    /\ remote[1] = Serialize(vesselDict[1])

====
